---- MODULE Spec2Model ----
(***************************************************************************)
(* A model of ubuntudesign/documentation_builder/builder.py.               *)
(*                                                                         *)
(*   Spec         build(): optional clone into a temporary directory,      *)
(*                Builder.build() (_copy_media, then _build_files one file *)
(*                at a time), and the finally block that removes the       *)
(*                temporary directory.                                     *)
(*   SpecLinks    Builder._replace_internal_links as a function of the     *)
(*                rendered HTML.                                           *)
(*   SpecContext  Builder._build_context: the walk over the context.yaml   *)
(*                files and the merge.                                     *)
(*                                                                         *)
(* File and directory names are sequences of one-character strings, so     *)
(* that fnmatch, the hidden-name test of glob, re.sub(r'\.md$', ...) and   *)
(* str.startswith are computed on characters as the code computes them.    *)
(***************************************************************************)
EXTENDS Integers, Sequences, FiniteSets, TLC

VARIABLES
    pc,                 \* where the run is
    repository,         \* build() argument: TRUE when a repository is given
    no_cleanup,         \* build() argument
    ignore_files,       \* build() argument: set of base names
    files,              \* regular files under source_path (paths relative to it)
    output_media_path,  \* build() argument: a path as spelled by the caller
    media_fs,           \* media directories on disk: location -> set of file names
    media_fs0,          \* media_fs as it was when build() was called
    repo_dir,           \* TRUE while the directory made by mkdtemp exists
    queue,              \* what iglob has still to yield in _build_files
    parsed,             \* source files handed to parse_markdown
    written,            \* output files completely written: output path -> page
    writes,             \* number of calls of _write_file that completed
    partial,            \* output files opened for writing whose write failed
    ignored,            \* files reported by "Ignored ..."
    copied,             \* number of "Copied ... to ..." reports
    warned,             \* number of "Warning: Media directory not found" reports
    error,              \* the exception propagating, or "none"
    html_document,      \* SpecLinks: the rendered HTML given to _replace_internal_links
    html_result,        \* SpecLinks: what _replace_internal_links returned
    no_link_extensions, \* SpecLinks: Builder.no_link_extensions
    context_files,      \* SpecContext: directory -> content of its context.yaml
    local_path,         \* SpecContext: directory of the document being built
    context_queue,      \* SpecContext: what iglob has still to yield in _build_context
    local_context       \* SpecContext: the context merged so far

vars == << pc, repository, no_cleanup, ignore_files, files, output_media_path,
           media_fs, media_fs0, repo_dir, queue, parsed, written, writes, partial,
           ignored, copied, warned, error, html_document, html_result,
           no_link_extensions, context_files, local_path, context_queue,
           local_context >>

buildVars == << repository, no_cleanup, ignore_files, files, output_media_path,
                media_fs, media_fs0, repo_dir, queue, parsed, written, writes,
                partial, ignored, copied, warned, error >>

linkVars == << html_document, html_result, no_link_extensions >>

contextVars == << context_files, local_path, context_queue, local_context >>

(***************************************************************************)
(* Bounds of the model.                                                    *)
(***************************************************************************)
MaxFiles == 3

MaxLinkElements == 3

MaxContextFiles == 3

(***************************************************************************)
(* Strings as sequences of characters.                                     *)
(***************************************************************************)
StartsWith(s, p) == Len(p) <= Len(s) /\ SubSeq(s, 1, Len(p)) = p

EndsWith(s, x) == Len(x) <= Len(s) /\ SubSeq(s, Len(s) - Len(x) + 1, Len(s)) = x

EmptyMap == [x \in {} |-> x]

DotMd == << ".", "m", "d" >>

DotHtml == << ".", "h", "t", "m", "l" >>

\* Names used in the source trees of the model.
A_md == << "a", ".", "m", "d" >>

B_md == << "b", ".", "m", "d" >>

DotD_md == << ".", "d", ".", "m", "d" >>

N_txt == << "n", ".", "t", "x", "t" >>

En == << "e", "n" >>

EnGb == << "e", "n", "-", "g", "b" >>

Sub == << "s", "u", "b" >>

DotGh == << ".", "g", "h" >>

Build == << "b", "u", "i", "l", "d" >>

(***************************************************************************)
(* Paths of the media directories are sequences of components ("docs",     *)
(* "..", ...); an absolute path starts with the component "/".             *)
(***************************************************************************)
Cwd == << "/", "cwd" >>

\* tempfile.mkdtemp() returns an absolute path
RepoDirPath == << "/", "tmp", "repo" >>

SourcePathArg == << "docs" >>

SourceMediaDir == << "media" >>

OutputMediaPaths ==
    { << "docs", "media" >>,
      << "build", "..", "docs", "media" >>,
      << "build", "media" >> }

\* os.path.normpath, on components
RECURSIVE NormFrom(_, _)
NormFrom(p, acc) ==
    IF p = << >> THEN acc
    ELSE IF Head(p) = "." THEN NormFrom(Tail(p), acc)
    ELSE IF Head(p) = ".." /\ acc = << "/" >> THEN NormFrom(Tail(p), acc)
    ELSE IF Head(p) = ".." /\ acc # << >> /\ acc[Len(acc)] # ".."
         THEN NormFrom(Tail(p), SubSeq(acc, 1, Len(acc) - 1))
    ELSE NormFrom(Tail(p), Append(acc, Head(p)))

\* os.path.abspath: normpath(join(getcwd(), path))
abspath(p) ==
    NormFrom(IF p # << >> /\ p[1] = "/" THEN p ELSE Cwd \o p, << >>)

\* length of the common prefix of two component lists
RECURSIVE CommonLen(_, _)
CommonLen(a, b) ==
    IF a = << >> \/ b = << >> \/ Head(a) # Head(b) THEN 0
    ELSE 1 + CommonLen(Tail(a), Tail(b))

\* os.path.relpath(path, start), on components
relpath(path, start) ==
    LET start_list == abspath(start)
        path_list == abspath(path)
        i == CommonLen(start_list, path_list)
        rel_list == [k \in 1..(Len(start_list) - i) |-> ".."]
                    \o SubSeq(path_list, i + 1, Len(path_list))
    IN  IF rel_list = << >> THEN << "." >> ELSE rel_list

\* build(): source_path = path.join(repo_dir, source_path) when a repository is given
source_path == IF repository THEN RepoDirPath \o SourcePathArg ELSE SourcePathArg

\* build(): source_media_path = path.join(source_path, source_media_dir)
source_media_path == source_path \o SourceMediaDir

\* path.isdir
isdir(p) == abspath(p) \in DOMAIN media_fs

\* _copy_media: media_paths_match = path.relpath(source, output) == '.'
\* (variant: the two paths are compared as they are spelled)
media_paths_match_literal == source_media_path = output_media_path

media_paths_match == relpath(source_media_path, output_media_path) = << "." >>

\* utilities.mergetree(src, dst): copy the tree at src into dst, keeping what dst holds
mergetree(fs, src, dst) ==
    LET s == abspath(src)
        d == abspath(dst)
    IN  (d :> ((IF d \in DOMAIN fs THEN fs[d] ELSE {}) \cup fs[s])) @@ fs

\* shutil.rmtree(repo_dir), on the media directories
rmtree(fs) ==
    LET kept == {d \in DOMAIN fs : ~StartsWith(d, RepoDirPath)}
    IN  [d \in kept |-> fs[d]]

(***************************************************************************)
(* The source tree: a file is its path relative to source_path, a sequence *)
(* of names.                                                               *)
(***************************************************************************)
\* The files a source tree of the model is made of: Markdown files at three
\* depths, a file whose name starts with a dot, a file in a directory whose
\* name starts with a dot, and a file that is not Markdown.
Candidates ==
    { << A_md >>, << B_md >>, << DotD_md >>, << N_txt >>,
      << En, A_md >>, << En, B_md >>, << En, Sub, A_md >>,
      << DotGh, A_md >> }

Trees == { S \in SUBSET Candidates : Cardinality(S) <= MaxFiles }

IgnoreLists == { {}, { A_md } }

basename(f) == f[Len(f)]

dirname(f) == SubSeq(f, 1, Len(f) - 1)

\* glob._ishidden
ishidden(name) == name[1] = "."

\* iglob(path.join(source_path, '**/*.md'), recursive=True) yields f
GlobMatches(f) ==
    /\ \A i \in 1..Len(f) : ~ishidden(f[i])
    /\ EndsWith(basename(f), DotMd)

Discovered(S) == { f \in S : GlobMatches(f) }

\* The orders in which iglob yields the set D: directories in pre-order (a
\* directory's own files first, then each subdirectory's subtree in turn), the
\* entries of one directory in the arbitrary order of os.scandir.
IsGlobOrder(q) ==
    /\ \A i, j \in 1..Len(q) :
          i < j => ~( /\ StartsWith(dirname(q[i]), dirname(q[j]))
                      /\ dirname(q[i]) # dirname(q[j]) )
    /\ \A i, j, k \in 1..Len(q) :
          i < j /\ j < k =>
             \A n \in 0..Len(dirname(q[i])) :
                LET x == SubSeq(dirname(q[i]), 1, n)
                IN  StartsWith(dirname(q[k]), x) => StartsWith(dirname(q[j]), x)

GlobOrders(D) ==
    { q \in [1..Cardinality(D) -> D] :
         /\ \A i, j \in 1..Cardinality(D) : i # j => q[i] # q[j]
         /\ IsGlobOrder(q) }

\* _build_files: path.basename(filepath) in self.ignore_files
\* (variant: the path is looked up, not its base name)
IsIgnored_fullpath(f) == f \in ignore_files

IsIgnored(f) == basename(f) \in ignore_files

\* _build_file: re.sub(r'\.md$', '.html', path.join(output_path, local_path))
\* (variant: the extension is left as it is)
output_filepath_keep(f) == << Build >> \o f

output_filepath(f) ==
    LET name == basename(f)
    IN  << Build >> \o dirname(f)
        \o << IF EndsWith(name, DotMd)
              THEN SubSeq(name, 1, Len(name) - Len(DotMd)) \o DotHtml
              ELSE name >>

(***************************************************************************)
(* parse_markdown.  The front-matter of a file is one of: a valid YAML     *)
(* block, none at all, or a block on which yaml.load raises.  PyYAML       *)
(* raises ScannerError and ParserError on what does not scan or parse,     *)
(* and ComposerError on an undefined alias or a duplicate anchor.          *)
(***************************************************************************)
YamlErrors == { "ScannerError", "ParserError", "ComposerError" }

FrontMatterResults == { "valid", "absent" } \cup YamlErrors

\* except (ScannerError, ParserError):
CaughtErrors == { "ScannerError", "ParserError" }

\* parse_markdown(filepath): the exception it raises ("none": it returns), and
\* the (html_content, metadata) it returns
parse_markdown(fm) ==
    IF fm = "valid"
    THEN [raises |-> "none", body |-> "content", metadata |-> "front_matter"]
    ELSE IF fm = "absent"
    THEN [raises |-> "none", body |-> "whole_file", metadata |-> "empty"]
    ELSE IF fm \in CaughtErrors
    THEN [raises |-> "none", body |-> "whole_file", metadata |-> "empty"]
    ELSE [raises |-> fm, body |-> "nothing", metadata |-> "nothing"]

\* template.render, _build_context: "none", or the exception raised
RenderResults == { "none", "TemplateError" }

\* makedirs, open, write in _write_file: "none", or the exception raised before
\* the file is opened ("makedirs") or after ("write")
WriteResults == { "none", "makedirs", "write" }

(***************************************************************************)
(* build() and Builder.build()                                             *)
(***************************************************************************)
\* the media directories on disk when build() is called; with a repository the
\* source media directory is the one the clone will hold
MediaDisk(src, out, srcIsDir, outIsDir) ==
    (IF srcIsDir THEN abspath(src) :> { "logo.png" } ELSE EmptyMap)
    @@ (IF outIsDir THEN abspath(out) :> { "old.png" } ELSE EmptyMap)

LinksIdle ==
    /\ html_document = << >>
    /\ html_result = << >>
    /\ no_link_extensions = FALSE

ContextIdle ==
    /\ context_files = EmptyMap
    /\ local_path = << >>
    /\ context_queue = << >>
    /\ local_context = EmptyMap

BuildIdle ==
    /\ repository = FALSE
    /\ no_cleanup = FALSE
    /\ ignore_files = {}
    /\ files = {}
    /\ output_media_path = << >>
    /\ media_fs = EmptyMap
    /\ media_fs0 = EmptyMap
    /\ repo_dir = FALSE
    /\ queue = << >>
    /\ parsed = {}
    /\ written = EmptyMap
    /\ writes = 0
    /\ partial = {}
    /\ ignored = {}
    /\ copied = 0
    /\ warned = 0
    /\ error = "none"

Init ==
    /\ pc = "start"
    /\ repository \in BOOLEAN
    /\ no_cleanup \in BOOLEAN
    /\ ignore_files \in IgnoreLists
    /\ files \in Trees
    /\ output_media_path \in OutputMediaPaths
    /\ \E srcIsDir, outIsDir \in BOOLEAN :
          media_fs = MediaDisk(source_media_path, output_media_path, srcIsDir, outIsDir)
    /\ media_fs0 = media_fs
    /\ repo_dir = FALSE
    /\ queue = << >>
    /\ parsed = {}
    /\ written = EmptyMap
    /\ writes = 0
    /\ partial = {}
    /\ ignored = {}
    /\ copied = 0
    /\ warned = 0
    /\ error = "none"
    /\ LinksIdle
    /\ ContextIdle

\* if repository: repo_dir = tempfile.mkdtemp()
Mkdtemp ==
    /\ pc = "start"
    /\ repository
    /\ repo_dir' = TRUE
    /\ pc' = "clone"
    /\ UNCHANGED << repository, no_cleanup, ignore_files, files, output_media_path,
                    media_fs, media_fs0, queue, parsed, written, writes, partial,
                    ignored, copied, warned, error >>
    /\ UNCHANGED << linkVars, contextVars >>

\* no repository: the try block is entered at once
NoRepository ==
    /\ pc = "start"
    /\ ~repository
    /\ pc' = "try"
    /\ UNCHANGED << buildVars, linkVars, contextVars >>

\* Repo.clone_from(repository, repo_dir) returns
CloneFrom ==
    /\ pc = "clone"
    /\ pc' = "try"
    /\ UNCHANGED << buildVars, linkVars, contextVars >>

\* Repo.clone_from raises: it is called before the try block
CloneFromRaises ==
    /\ pc = "clone"
    /\ pc' = "raised"
    /\ error' = "GitCommandError"
    /\ UNCHANGED << repository, no_cleanup, ignore_files, files, output_media_path,
                    media_fs, media_fs0, repo_dir, queue, parsed, written, writes,
                    partial, ignored, copied, warned >>
    /\ UNCHANGED << linkVars, contextVars >>

\* Builder._copy_media, called once by Builder.build
CopyMedia ==
    /\ pc = "try"
    /\ IF isdir(source_media_path)
       THEN IF ~media_paths_match
            THEN /\ media_fs' = mergetree(media_fs, source_media_path, output_media_path)
                 /\ copied' = copied + 1
                 /\ warned' = warned
            ELSE UNCHANGED << media_fs, copied, warned >>
       ELSE /\ warned' = warned + 1
            /\ UNCHANGED << media_fs, copied >>
    /\ pc' = "iglob"
    /\ UNCHANGED << repository, no_cleanup, ignore_files, files, output_media_path,
                    media_fs0, repo_dir, queue, parsed, written, writes, partial,
                    ignored, error >>
    /\ UNCHANGED << linkVars, contextVars >>

\* Builder._build_files: for filepath in iglob(path.join(source_path, '**/*.md'), ...)
BuildFilesBegin ==
    /\ pc = "iglob"
    /\ queue' \in GlobOrders(Discovered(files))
    /\ pc' = "build_files"
    /\ UNCHANGED << repository, no_cleanup, ignore_files, files, output_media_path,
                    media_fs, media_fs0, repo_dir, parsed, written, writes, partial,
                    ignored, copied, warned, error >>
    /\ UNCHANGED << linkVars, contextVars >>

\* the loop body, a file of the ignore list: print("Ignored ...")
IgnoreFile ==
    /\ pc = "build_files"
    /\ queue # << >>
    /\ IsIgnored(Head(queue))
    /\ ignored' = ignored \cup { Head(queue) }
    /\ queue' = Tail(queue)
    /\ UNCHANGED << pc, repository, no_cleanup, ignore_files, files, output_media_path,
                    media_fs, media_fs0, repo_dir, parsed, written, writes, partial,
                    copied, warned, error >>
    /\ UNCHANGED << linkVars, contextVars >>

\* an exception leaves the loop, _build_files and Builder.build: the finally
\* block of build() is next
\* (variant: the exception is noted and the loop goes on)
Raise_swallowed(e) ==
    /\ error' = e
    /\ pc' = pc

Raise(e) ==
    /\ error' = e
    /\ pc' = "finally"

\* Builder._build_file(filepath) on a file with front-matter fm, where rendering
\* ends as r and writing as w.  The page written is kept as what parse_markdown
\* returned for it; the rewriting of its text is _replace_internal_links
\* (SpecLinks) and its template context is _build_context (SpecContext).
BuildFileAs(f, fm, r, w) ==
    LET p == parse_markdown(fm)
        out == output_filepath(f)
    IN  /\ parsed' = parsed \cup { f }
        /\ IF p.raises # "none"
           THEN /\ Raise(p.raises)
                /\ UNCHANGED << written, writes, partial >>
           ELSE IF r # "none"
           THEN /\ Raise(r)
                /\ UNCHANGED << written, writes, partial >>
           ELSE IF w = "makedirs"
           THEN /\ Raise("OSError")
                /\ UNCHANGED << written, writes, partial >>
           ELSE IF w = "write"
           THEN /\ Raise("OSError")
                /\ partial' = partial \cup { out }
                /\ UNCHANGED << written, writes >>
           ELSE /\ written' = (out :> [source |-> f, body |-> p.body,
                                       metadata |-> p.metadata]) @@ written
                /\ writes' = writes + 1
                /\ UNCHANGED << pc, error, partial >>

\* the loop body, a file not of the ignore list: self._build_file(filepath)
BuildFile ==
    /\ pc = "build_files"
    /\ queue # << >>
    /\ ~IsIgnored(Head(queue))
    /\ \E fm \in FrontMatterResults, r \in RenderResults, w \in WriteResults :
          BuildFileAs(Head(queue), fm, r, w)
    /\ queue' = Tail(queue)
    /\ UNCHANGED << repository, no_cleanup, ignore_files, files, output_media_path,
                    media_fs, media_fs0, repo_dir, ignored, copied, warned >>
    /\ UNCHANGED << linkVars, contextVars >>

\* iglob is exhausted: Builder.build returns
BuildFilesEnd ==
    /\ pc = "build_files"
    /\ queue = << >>
    /\ pc' = "finally"
    /\ UNCHANGED << buildVars, linkVars, contextVars >>

\* finally: if repository and not no_cleanup: rmtree(repo_dir)
\* (variant: the removal follows the try block instead of being its finally)
Cleanup_on_success ==
    /\ repo_dir' = IF repository /\ ~no_cleanup /\ error = "none" THEN FALSE ELSE repo_dir
    /\ media_fs' = IF repository /\ ~no_cleanup /\ error = "none"
                   THEN rmtree(media_fs) ELSE media_fs

Cleanup ==
    /\ repo_dir' = IF repository /\ ~no_cleanup THEN FALSE ELSE repo_dir
    /\ media_fs' = IF repository /\ ~no_cleanup THEN rmtree(media_fs) ELSE media_fs

\* the finally block, then build() returns or the exception goes on to the caller
Finally ==
    /\ pc = "finally"
    /\ Cleanup
    /\ pc' = IF error = "none" THEN "returned" ELSE "raised"
    /\ UNCHANGED << repository, no_cleanup, ignore_files, files, output_media_path,
                    media_fs0, queue, parsed, written, writes, partial, ignored,
                    copied, warned, error >>
    /\ UNCHANGED << linkVars, contextVars >>

Next ==
    \/ Mkdtemp
    \/ NoRepository
    \/ CloneFrom
    \/ CloneFromRaises
    \/ CopyMedia
    \/ BuildFilesBegin
    \/ IgnoreFile
    \/ BuildFile
    \/ BuildFilesEnd
    \/ Finally

Spec == Init /\ [][Next]_vars

(***************************************************************************)
(* Properties of build()                                                   *)
(***************************************************************************)
Terminated == pc \in { "returned", "raised" }

\* the try block of build() was entered: Builder.build() was called
TryEntered ==
    /\ pc \notin { "start", "clone" }
    /\ error # "GitCommandError"

IsMarkdown(f) == EndsWith(basename(f), DotMd)

\* no name of the path below the source root starts with a dot
IsVisible(f) == \A i \in 1..Len(f) : f[i][1] # "."

\* the mirror of d/name.md: output_path/d/name.html
MirrorPath(f) ==
    << Build >> \o dirname(f)
    \o << SubSeq(basename(f), 1, Len(basename(f)) - 3) \o DotHtml >>

Range(q) == { q[i] : i \in 1..Len(q) }

\* C1: with a repository and no_cleanup false the temporary directory is gone
\* once Builder.build() has returned or raised and build() has ended; with
\* no_cleanup true it is still there.
C1_CleanupAfterBuild ==
    (Terminated /\ repository /\ TryEntered) => (repo_dir <=> no_cleanup)

C1_Witness ==
    /\ pc = "raised"
    /\ repository
    /\ ~no_cleanup
    /\ TryEntered
    /\ parsed # {}
    /\ ~repo_dir

\* C2 as stated: after a build without error the files written are exactly the
\* mirror of every .md file under the source root whose base name is not ignored.
C2_MirrorOfEveryMarkdownFile ==
    pc = "returned" =>
        DOMAIN written =
            { MirrorPath(f) : f \in { g \in files : IsMarkdown(g)
                                                    /\ basename(g) \notin ignore_files } }

\* C2 amended: after a build without error the files written are exactly the
\* mirror of the .md files under the source root that have no name starting with
\* a dot in their relative path and whose base name is not ignored, each written
\* once from the source file it mirrors.
C2_MirrorOfDiscovered ==
    pc = "returned" =>
        LET sources == { g \in files : /\ IsMarkdown(g)
                                       /\ IsVisible(g)
                                       /\ basename(g) \notin ignore_files }
        IN  /\ DOMAIN written = { MirrorPath(f) : f \in sources }
            /\ \A f \in sources : written[MirrorPath(f)].source = f
            /\ writes = Cardinality(sources)
            /\ partial = {}

C2_Witness ==
    /\ pc = "returned"
    /\ MirrorPath(<< En, Sub, A_md >>) \in DOMAIN written
    /\ \E g \in files : IsMarkdown(g) /\ ~IsVisible(g)
    /\ \E g \in files : ~IsMarkdown(g)

\* C3 as stated: every .md file under the source root whose base name is in the
\* ignore list is never parsed, never written, and is reported as ignored.
C3_EveryIgnoredFileReported ==
    \A f \in files :
        (IsMarkdown(f) /\ basename(f) \in ignore_files) =>
            /\ f \notin parsed
            /\ MirrorPath(f) \notin DOMAIN written \cup partial
            /\ pc = "returned" => f \in ignored

\* C3 amended: every .md file under the source root whose base name is in the
\* ignore list is never parsed and never written; when it has no name starting
\* with a dot in its relative path it is reported as ignored as soon as the walk
\* yields it, only such files are reported, and a build without error has also
\* written the files that are not ignored.
C3_IgnoredFiles ==
    /\ \A f \in files :
          (IsMarkdown(f) /\ basename(f) \in ignore_files) =>
              /\ f \notin parsed
              /\ MirrorPath(f) \notin DOMAIN written \cup partial
              /\ (IsVisible(f) /\ pc \in { "build_files", "finally", "returned" })
                    => (f \in ignored \/ f \in Range(queue))
    /\ \A f \in ignored : f \in files /\ basename(f) \in ignore_files
    /\ pc = "returned" =>
          \A g \in files :
              (IsMarkdown(g) /\ IsVisible(g) /\ basename(g) \notin ignore_files)
                  => MirrorPath(g) \in DOMAIN written

C3_Witness ==
    /\ pc = "returned"
    /\ << En, A_md >> \in ignored
    /\ MirrorPath(<< En, B_md >>) \in DOMAIN written
    /\ << DotGh, A_md >> \in files

\* C6 as stated: a front-matter block that fails to parse as YAML never makes
\* parse_markdown raise, so no YAML error ever leaves the build.
C6_MalformedFrontMatterRecoverable == error \notin YamlErrors

\* C10 as stated: with a repository and no_cleanup false the temporary directory
\* does not exist when build() returns or raises, whatever the exit path; with no
\* repository no directory is made.
C10_NoTemporaryDirectoryLeak ==
    /\ (Terminated /\ repository /\ ~no_cleanup) => ~repo_dir
    /\ ~repository => ~repo_dir

\* _copy_media has run
MediaCopierDone ==
    \/ pc \in { "iglob", "build_files", "finally", "returned" }
    \/ pc = "raised" /\ TryEntered

\* the media directories as locations: absolute, normalised paths
SourceMediaLocation == abspath(source_media_path)

OutputMediaLocation == abspath(output_media_path)

C9_FailFast ==
    /\ [][error # "none" =>
             /\ parsed' = parsed
             /\ ignored' = ignored
             /\ written' = written
             /\ writes' = writes
             /\ partial' = partial
             /\ error' = error
             /\ pc' \in { "finally", "raised" }]_vars
    /\ [][\A o \in DOMAIN written :
             o \in DOMAIN written' /\ written'[o] = written[o]]_vars
    /\ [][/\ Cardinality(parsed') <= Cardinality(parsed) + 1
          /\ parsed' # parsed =>
                \A f \in parsed : MirrorPath(f) \in DOMAIN written]_vars
    /\ [](pc = "returned" => error = "none")

C9_Witness ==
    /\ pc = "raised"
    /\ error \in { "ComposerError", "TemplateError", "OSError" }
    /\ written # EmptyMap
    /\ queue # << >>
    /\ Cardinality(parsed) = Cardinality(DOMAIN written) + 1

\* Builder._replace_internal_links.  The rendered HTML is a sequence of tokens;
\* no token is part of another, so the regular expression of the method,
\*     href=" not followed by spaces and http, then any characters, then \.md
\* is matched on tokens as it is on characters.
Href == "href=\""

Quote == "\""

Http == "http://"

Space == " "

Newline == "\n"

Md == ".md"

Html == ".html"

\* what the rendered HTML of the model is made of
InternalLink == << Href, "page", Md, Quote >>

ExternalLink == << Href, Http, "page", Md, Quote >>

Text == << "text" >>

TextNamingFile == << "README", Md >>

LineBreak == << Newline >>

LinkElements == { InternalLink, ExternalLink, Text, TextNamingFile, LineBreak }

RECURSIVE Flatten(_)
Flatten(ss) == IF ss = << >> THEN << >> ELSE Head(ss) \o Flatten(Tail(ss))

Documents ==
    { Flatten(es) : es \in UNION { [1..n -> LinkElements] : n \in 0..MaxLinkElements } }

\* " *http" matches at position k
RECURSIVE SpacesThenHttp(_, _)
SpacesThenHttp(s, k) ==
    IF k > Len(s) THEN FALSE
    ELSE IF s[k] = Space THEN SpacesThenHttp(s, k + 1)
    ELSE s[k] = Http

\* the positions up to which ".*" can run from position k: "." matches no newline
RECURSIVE LineEnd(_, _)
LineEnd(s, k) ==
    IF k > Len(s) \/ s[k] = Newline THEN k - 1 ELSE LineEnd(s, k + 1)

\* where a match of the pattern that starts at position i ends: ".*" is greedy,
\* so at the last ".md" of the line; 0 when there is no match at i
MatchEnd(s, i) ==
    IF s[i] = Href /\ ~SpacesThenHttp(s, i + 1)
    THEN LET ends == { j \in (i + 1)..LineEnd(s, i + 1) : s[j] = Md }
         IN  IF ends = {} THEN 0 ELSE CHOOSE j \in ends : \A l \in ends : j >= l
    ELSE 0

\* re.sub(pattern, repl, s): the leftmost match, replaced, then on from its end
RECURSIVE ReSub(_, _, _)
ReSub(s, i, repl) ==
    IF i > Len(s) THEN << >>
    ELSE IF MatchEnd(s, i) # 0
    THEN SubSeq(s, i, MatchEnd(s, i) - 1) \o repl \o ReSub(s, MatchEnd(s, i) + 1, repl)
    ELSE << s[i] >> \o ReSub(s, i + 1, repl)

\* Builder._replace_internal_links(html_document)
replace_internal_links(doc, flag) ==
    IF flag THEN ReSub(doc, 1, << >>) ELSE ReSub(doc, 1, << Html >>)

InitLinks ==
    /\ pc = "links"
    /\ html_document \in Documents
    /\ no_link_extensions \in BOOLEAN
    /\ html_result = << >>
    /\ BuildIdle
    /\ ContextIdle

ReplaceInternalLinks ==
    /\ pc = "links"
    /\ html_result' = replace_internal_links(html_document, no_link_extensions)
    /\ pc' = "links_done"
    /\ UNCHANGED << html_document, no_link_extensions >>
    /\ UNCHANGED << buildVars, contextVars >>

NextLinks == ReplaceInternalLinks

SpecLinks == InitLinks /\ [][NextLinks]_vars

\* position j of s is the ".md" that ends the value of an href whose value does
\* not start with http
EndsInternalHref(s, j) ==
    /\ s[j] = Md
    /\ j < Len(s)
    /\ s[j + 1] = Quote
    /\ \E i \in 1..(j - 1) :
          /\ s[i] = Href
          /\ s[i + 1] # Http
          /\ \A l \in (i + 1)..j : s[l] \notin { Href, Quote }

\* the rewriting C4 states: the ".md" that ends an internal href becomes ".html",
\* or goes when no_link_extensions is on, and nothing else changes
RewrittenAsStated(s, flag) ==
    Flatten([j \in 1..Len(s) |->
                IF EndsInternalHref(s, j)
                THEN (IF flag THEN << >> ELSE << Html >>)
                ELSE << s[j] >>])

\* C4 as stated: every href that does not start with http and ends with .md is
\* rewritten, also when several stand on one line; an href that starts with http
\* is never rewritten; no other text is changed.
C4_EveryInternalLinkRewritten ==
    pc = "links_done" =>
        html_result = RewrittenAsStated(html_document, no_link_extensions)

(***************************************************************************)
(* Builder._build_context.  Paths are strings here, sequences of           *)
(* characters, since the method compares them with str.startswith.         *)
(***************************************************************************)
Docs == << "d", "o", "c", "s" >>

ContextYaml == << "c", "o", "n", "t", "e", "x", "t", ".", "y", "a", "m", "l" >>

\* the directories under the source root, as sequences of names
ContextDirs == { << >>, << En >>, << EnGb >>, << En, Sub >>, << EnGb, Sub >> }

ContextKeys == { "title", "nav" }

\* the source trees: which directories hold a context.yaml, and the keys it sets;
\* the value a file gives to a key is the file's own directory
ContextTrees ==
    UNION { [D -> (SUBSET ContextKeys) \ { {} }] :
               D \in { E \in SUBSET ContextDirs : Cardinality(E) <= MaxContextFiles } }

\* path.join(self.source_path, d), as a string
RECURSIVE PathString(_)
PathString(d) ==
    IF d = << >> THEN Docs
    ELSE PathString(SubSeq(d, 1, Len(d) - 1)) \o << "/" >> \o d[Len(d)]

\* if local_path.startswith(path.dirname(context_filepath))
Contributes(doc_dir, context_dir) ==
    StartsWith(PathString(doc_dir), PathString(context_dir))

\* local_context.update(yaml.load(context_file))
update(context, d) ==
    [k \in DOMAIN context \cup context_files[d] |->
        IF k \in context_files[d] THEN d ELSE context[k]]

InitContext ==
    /\ pc = "context"
    /\ context_files \in ContextTrees
    /\ local_path \in ContextDirs
    /\ context_queue = << >>
    /\ local_context = EmptyMap
    /\ BuildIdle
    /\ LinksIdle

\* local_context = {}; for context_filepath in iglob('{root}/**/context.yaml', ...)
BuildContextBegin ==
    /\ pc = "context"
    /\ context_queue' \in GlobOrders({ d \o << ContextYaml >> : d \in DOMAIN context_files })
    /\ local_context' = EmptyMap
    /\ pc' = "context_loop"
    /\ UNCHANGED << context_files, local_path >>
    /\ UNCHANGED << buildVars, linkVars >>

\* the loop body
BuildContextFile ==
    /\ pc = "context_loop"
    /\ context_queue # << >>
    /\ local_context' =
          IF Contributes(local_path, dirname(Head(context_queue)))
          THEN update(local_context, dirname(Head(context_queue)))
          ELSE local_context
    /\ context_queue' = Tail(context_queue)
    /\ UNCHANGED << pc, context_files, local_path >>
    /\ UNCHANGED << buildVars, linkVars >>

\* return local_context
BuildContextReturn ==
    /\ pc = "context_loop"
    /\ context_queue = << >>
    /\ pc' = "context_done"
    /\ UNCHANGED << contextVars, buildVars, linkVars >>

NextContext ==
    \/ BuildContextBegin
    \/ BuildContextFile
    \/ BuildContextReturn

SpecContext == InitContext /\ [][NextContext]_vars

\* directory a is directory d or one of its ancestors
IsAncestorOrSelf(a, d) == Len(a) <= Len(d) /\ SubSeq(d, 1, Len(a)) = a

\* the context.yaml files in the directory of the document and its ancestors
AncestorContexts == { d \in DOMAIN context_files : IsAncestorOrSelf(d, local_path) }

\* C5 as stated: when several of the document's directory and its ancestors hold
\* a context.yaml, the merged context has the keys of every one of them, and a
\* key set by several of them has the value of the deepest one.
C5_DeeperContextWins ==
    (pc = "context_done" /\ Cardinality(AncestorContexts) >= 2) =>
        \A d \in AncestorContexts :
            \A k \in context_files[d] :
                /\ k \in DOMAIN local_context
                /\ \E e \in AncestorContexts :
                      /\ k \in context_files[e]
                      /\ local_context[k] = e
                      /\ Len(e) >= Len(d)

\* C8 as stated: only a context.yaml in the document's directory or in an
\* ancestor of it contributes to the document's context.
C8_OnlyAncestorsContribute ==
    \A k \in DOMAIN local_context : IsAncestorOrSelf(local_context[k], local_path)

====
